---- MODULE Spec2Model ----
(***************************************************************************)
(* The training driver of train.py (main, lines 60-160) as a state machine: *)
(* a sequence of processes that share the directory model_saved/.  Each     *)
(* process builds a fresh model and optimizer, optionally restores the      *)
(* latest checkpoint, runs the epoch loop (mini-batches, periodic log and   *)
(* validation, periodic save) and writes a final checkpoint.  A process can *)
(* be killed at any point, also in the middle of a torch.save.              *)
(***************************************************************************)
EXTENDS Integers, Sequences, FiniteSets, TLC

\* ---------------------------------------------------------------- bounds
MaxEpoch == 3       \* args.epoch ranges over 0..MaxEpoch
MaxInterval == 2    \* args.save_interval and args.log_interval: 0..MaxInterval
MaxBatches == 2     \* len(train_loader) ranges over 1..MaxBatches
MaxRuns == 3        \* processes started one after the other on one directory
MaxTag == 20        \* epoch tags 0..MaxTag (and 100) in the directories of SpecSelect
MaxN == 30         \* len(all_set) ranges over 0..MaxN in SpecSplit
MaxGen == 3         \* states 0..MaxGen of torch's default random generator

VARIABLES
    pc,             \* position of the running process, or how the last one ended
    run,            \* number of processes started so far
    error,          \* the exception that ended the process ("none" otherwise)
    args,           \* parse_args(): epoch, save_interval, log_interval, eval_val, continue_training
    nbatches,       \* len(train_loader)
    dir,            \* model_saved/: epoch tag n |-> contents of checkpoint_epoch_<n>.pt
    dir0,           \* model_saved/ as the running process found it
    last_saved,     \* tag of the artifact written last in time (-1: none yet)
    model,          \* model.state_dict()
    optimizer,      \* optimizer.state_dict()
    training,       \* model.training
    continue_epoch,
    checkpoint_fp,  \* tag of the artifact picked at line 100 (-1: not bound)
    epoch,          \* loop variable of line 118 (-1: not bound)
    executed,       \* the epochs whose batches this process has started, in order
    next_step,      \* position of enumerate(train_loader) inside the epoch
    step,           \* loop variable of line 119 (-1: not bound)
    loss,
    val_loss,
    log,            \* records handed to logging by this process
    nsamples,       \* len(all_set), the samples of normal.npy (-1: not followed)
    generator,      \* state of torch's default random generator
    split,          \* train_set, val_set, test_set as sequences of sample indices
    partitions      \* per process that reached line 74: generator state before line 72, and its split

vars == <<pc, run, error, args, nbatches, dir, dir0, last_saved, model, optimizer,
          training, continue_epoch, checkpoint_fp, epoch, executed, next_step,
          step, loss, val_loss, log, nsamples, generator, split, partitions>>

\* Lines 66-75 assign these and lines 77-160 leave them alone.
datavars == <<nsamples, generator, split, partitions>>

procvars == <<dir0, model, optimizer, training, continue_epoch, checkpoint_fp,
              epoch, executed, next_step, step, loss, val_loss>>

\* ---------------------------------------------------------------- values
\* a Python name that is not bound yet, or a tag that names no file
Unbound == 0 - 1

\* A state dict is identified by the process that initialised it and the
\* number of optimizer steps applied since.
NoState == [init |-> -1, steps |-> -1]

FreshModel(r) == [init |-> r, steps |-> 0]

FreshOptimizer(r) == [init |-> r, steps |-> 0]

\* a batch without optimizer.step()
Unstepped(sd) == sd

\* optimizer.step(): one more update of the parameters / of Adam's moments
Stepped(sd) == [sd EXCEPT !.steps = @ + 1]

UnboundTensor == [fn |-> "unbound", of |-> NoState, batch |-> -1]

\* torch.tensor(-1)
Sentinel == [fn |-> "const", of |-> NoState, batch |-> -1]

\* loss_func(decoded, x) on batch b of the training set with parameters m
TrainLoss(m, b) == [fn |-> "train", of |-> m, batch |-> b]

\* loss_func(decoded, x) returns nan or inf: no statement of lines 121-126
\* raises on such a value
NonFiniteLoss(m, b) == [fn |-> "nonfinite", of |-> m, batch |-> b]

\* loss_func(val_decoded, val_x) on the single validation batch
ValLoss(m) == [fn |-> "val", of |-> m, batch |-> 0]

Running == {"resume", "loop", "batch", "log", "save", "final"}

Ended == {"idle", "completed", "raised", "killed"}

\* ------------------------------------------------------- checkpoint files
\* What torch.load and the statements after it can trip over in an artifact.
\*   unreadable     torch.load raises (a truncated or foreign file), line 102
\*   bad_model      model.load_state_dict raises, line 103
\*   bad_optimizer  optimizer.load_state_dict raises, line 104
\*   no_epoch       checkpoint['epoch'] raises KeyError, line 105
\*   no_loss        checkpoint['loss'] raises KeyError, line 106
\*   bad_loss       continue_loss.data.cpu() raises (not a tensor), line 111
Defects == {"none", "unreadable", "bad_model", "bad_optimizer",
            "no_epoch", "no_loss", "bad_loss"}

\* The dict handed to torch.save at lines 149-153 and 155-159.
Checkpoint(e, l, m, o) ==
    [epoch |-> e, loss |-> l, model_state_dict |-> m,
     optimizer_state_dict |-> o, defect |-> "none"]

\* What a torch.save that was killed half way leaves at its path: the file
\* was opened for writing (emptied) and holds a prefix of the archive.
Truncated(f) == [f EXCEPT !.defect = "unreadable"]

NoFile == [Checkpoint(Unbound, UnboundTensor, NoState, NoState) EXCEPT !.defect = "absent"]

\* model_saved/ right after os.makedirs created it
EmptyDir == [t \in {} |-> NoFile]

\* open(path, 'wb') and write: the path is created or overwritten.
WriteFile(d, tag, f) == [t \in DOMAIN d \cup {tag} |-> IF t = tag THEN f ELSE d[t]]

\* f'{epoch}': the decimal digits of a non-negative integer
RECURSIVE Str(_)
Str(n) == IF n < 10 THEN <<n>> ELSE Str(n \div 10) \o <<n % 10>>

\* f'model_saved/checkpoint_epoch_{epoch}.pt', reduced to the part that varies
FileName(n) == Str(n)

NoPath == <<>>

\* glob.glob('model_saved/checkpoint_*.pt')
Glob(d) == {FileName(t) : t \in DOMAIN d}

\* the file a path names
Open(d, fp) == d[CHOOSE t \in DOMAIN d : FileName(t) = fp]

\* natsort's key for a name: the digit run is read as one integer
RECURSIVE NatsortKey(_)
NatsortKey(s) ==
    IF s = <<>> THEN 0
    ELSE 10 * NatsortKey(SubSeq(s, 1, Len(s) - 1)) + s[Len(s)]

\* plain string order, character by character (what sorted() would use)
RECURSIVE PlainLeq(_, _)
PlainLeq(a, b) ==
    IF a = <<>> THEN TRUE
    ELSE IF b = <<>> THEN FALSE
    ELSE IF Head(a) # Head(b) THEN Head(a) < Head(b)
    ELSE PlainLeq(Tail(a), Tail(b))

\* the order natsort.natsorted sorts the names by
NatsortLeq(a, b) == NatsortKey(a) <= NatsortKey(b)

\* natsort.natsorted(names): ascending
RECURSIVE Natsorted(_)
Natsorted(S) ==
    IF S = {} THEN <<>>
    ELSE LET lo == CHOOSE x \in S : \A y \in S : NatsortLeq(x, y)
         IN  <<lo>> \o Natsorted(S \ {lo})

\* list[0]
FirstOf(l) == l[1]

\* list[-1]
LastOf(l) == l[Len(l)]

\* ------------------------------------------------------------------- log
Entry(msg, exc, fp, e, ts, tl, vl) ==
    [msg |-> msg, exc |-> exc, fp |-> fp, epoch |-> e, total_step |-> ts,
     train_loss |-> tl, val_loss |-> vl]

\* logging.info(f"load checkpoint file: '{checkpoint_fp}"), line 108
LoadedEntry(fp) ==
    Entry("load checkpoint file", "none", fp, Unbound, Unbound, UnboundTensor, UnboundTensor)

\* logging.info((f"continue epoch: ...", f"train_loss: ...")), lines 109-112
ContinueEntry(e, l) ==
    Entry("continue epoch", "none", NoPath, e, Unbound, l, UnboundTensor)

\* logging.exception('load model checkpoint failed'), line 114
FailedEntry(exc) ==
    Entry("load model checkpoint failed", exc, NoPath, Unbound, Unbound, UnboundTensor, UnboundTensor)

\* logging.info(f'continue training from epoch: {continue_epoch}'), line 115
FromEntry(e) ==
    Entry("continue training from epoch", "none", NoPath, e, Unbound, UnboundTensor, UnboundTensor)

\* logging.info((epoch, total_step, train_loss, val_loss)), lines 141-146
EpochEntry(e, ts, tl, vl) == Entry("epoch", "none", NoPath, e, ts, tl, vl)

\* ------------------------------------------------------------- partition
\* no random_split has run in this process
NoSplit == [made |-> FALSE, train |-> <<>>, val |-> <<>>, test |-> <<>>]

\* 18 bits, the width of one limb of a product below
Limb == 2^18

\* The double nearest to 0.8 is 0x1999999999999A * 2^-53 and the double
\* nearest to 0.1 is 0x1999999999999A * 2^-56.  The significand, in three
\* limbs of 18 bits:
SigLow == 104858

SigMid == 157286

SigHigh == 104857

\* the number of bits of n
RECURSIVE BitLen(_)
BitLen(n) == IF n = 0 THEN 0 ELSE 1 + BitLen(n \div 2)

\* n * x in double arithmetic for an integer 0 <= n < 2^12 and the double
\* x = 0x1999999999999A * 2^-sh: the exact product is rounded to 53 bits,
\* nearest, ties to even.  The result is given by its integer part and
\* whether a fractional part is left.
FloatTimes(n, sh) ==
    LET p0   == n * SigLow
        l0   == p0 % Limb
        p1   == n * SigMid + (p0 \div Limb)
        l1   == p1 % Limb
        top  == n * SigHigh + (p1 \div Limb)
        hb   == 2^(sh - 36)
        ip   == top \div hb
        fh   == top % hb
        d    == IF BitLen(top) > 17 THEN BitLen(top) - 17 ELSE 0
        half == IF d = 0 THEN 0 ELSE 2^(d - 1)
        up   == d >= 1 /\ fh = hb - 1 /\ l1 = Limb - 1 /\ l0 >= Limb - half
        zero == fh = 0 /\ l1 = 0 /\ l0 <= half
    IN  IF up THEN [int |-> ip + 1, frac |-> FALSE]
        ELSE [int |-> ip, frac |-> ~zero]

\* math.ceil(x)
CeilOf(x) == x.int + (IF x.frac THEN 1 ELSE 0)

\* int(x) of a non-negative float: the fractional part is dropped
IntOf(x) == x.int

\* int(len(all_set) * 0.8), line 69
TrainLen(n) == IntOf(FloatTimes(n, 53))

\* int(len(all_set) * 0.1), line 70
ValLen(n) == IntOf(FloatTimes(n, 56))

\* len(all_set) - train_len - val_len, line 71
TestLen(n) == n - TrainLen(n) - ValLen(n)

\* the generator after one draw
NextGen(g) == (g + 1) % (MaxGen + 1)

\* the generator after k draws
RECURSIVE Advance(_, _)
Advance(g, k) == IF k = 0 THEN g ELSE Advance(NextGen(g), k - 1)

\* a shuffle that takes each next element at a position drawn from the generator
RECURSIVE Shuffle(_, _)
Shuffle(pool, g) ==
    IF pool = <<>> THEN <<>>
    ELSE LET i == (g % Len(pool)) + 1
         IN  <<pool[i]>> \o Shuffle(SubSeq(pool, 1, i - 1) \o SubSeq(pool, i + 1, Len(pool)),
                                    NextGen(g))

\* torch.randperm(n, generator=default_generator), called by random_split:
\* a permutation of 0..n-1 that the generator state determines
Randperm(g, n) == Shuffle([i \in 1..n |-> i - 1], g)

\* a process that leaves the generator as it finds it
KeepGenerator(g, seed) == g

\* torch.manual_seed(seed), line 72: the state depends on the seed alone
ManualSeed(g, seed) == seed % (MaxGen + 1)

\* q[lo:hi] of a Python list, for lo and hi that are not negative
Slice(q, lo, hi) ==
    IF lo >= hi \/ lo >= Len(q) THEN <<>>
    ELSE SubSeq(q, lo + 1, IF hi < Len(q) THEN hi ELSE Len(q))

\* random_split(all_set, (a, b, c)), line 74: consecutive slices of one
\* permutation of the indices
RandomSplit(g, a, b, c) ==
    LET perm == Randperm(g, a + b + c)
    IN  [made |-> TRUE,
         train |-> Slice(perm, 0, a),
         val |-> Slice(perm, a, a + b),
         test |-> Slice(perm, a + b, a + b + c)]

\* --------------------------------------------------------------- startup
\* The values parse_args() can return that the loop reads (lines 17-37).
Args ==
    [epoch : 0..MaxEpoch, save_interval : 0..MaxInterval,
     log_interval : 0..MaxInterval, eval_val : BOOLEAN,
     continue_training : BOOLEAN]

NoArgs ==
    [epoch |-> 0, save_interval |-> 0, log_interval |-> 0, eval_val |-> FALSE,
     continue_training |-> FALSE]

\* The variables of a process that does not exist.
NoProcess ==
    [model |-> NoState, optimizer |-> NoState, training |-> FALSE,
     dir0 |-> EmptyDir, continue_epoch |-> 0, checkpoint_fp |-> NoPath,
     epoch |-> Unbound,
     executed |-> <<>>, next_step |-> 0, step |-> Unbound,
     loss |-> UnboundTensor, val_loss |-> UnboundTensor, log |-> <<>>]

\* The process dies (an exception leaves main, or it is killed): its arguments
\* and variables are gone; its files and the way it ended stay.
Exits(status, err) ==
    /\ pc' = status
    /\ error' = err
    /\ model' = NoProcess.model
    /\ optimizer' = NoProcess.optimizer
    /\ training' = NoProcess.training
    /\ continue_epoch' = NoProcess.continue_epoch
    /\ checkpoint_fp' = NoProcess.checkpoint_fp
    /\ epoch' = NoProcess.epoch
    /\ executed' = NoProcess.executed
    /\ next_step' = NoProcess.next_step
    /\ step' = NoProcess.step
    /\ loss' = NoProcess.loss
    /\ val_loss' = NoProcess.val_loss
    /\ log' = NoProcess.log
    /\ dir0' = NoProcess.dir0
    /\ args' = NoArgs
    /\ nbatches' = 1

\* Lines 61-94: a new process builds its loaders, a fresh model and a fresh
\* optimizer and sets continue_epoch = 0.  os.makedirs(exist_ok=True) makes
\* an absent directory an empty one.  The loaders exist only when the
\* validation set is not empty (line 84), so the training set is not empty
\* either and holds at least one batch.
StartRun ==
    /\ UNCHANGED datavars
    /\ pc \in Ended
    /\ run < MaxRuns
    /\ run' = run + 1
    /\ \E a \in Args : args' = a
    /\ \E n \in 1..MaxBatches : nbatches' = n
    /\ model' = FreshModel(run + 1)
    /\ optimizer' = FreshOptimizer(run + 1)
    /\ training' = TRUE
    /\ continue_epoch' = 0
    /\ checkpoint_fp' = NoPath
    /\ epoch' = Unbound
    /\ executed' = <<>>
    /\ next_step' = 0
    /\ step' = Unbound
    /\ loss' = UnboundTensor
    /\ val_loss' = UnboundTensor
    /\ log' = <<>>
    /\ error' = "none"
    /\ pc' = IF args'.continue_training THEN "resume" ELSE "loop"
    /\ dir0' = dir
    /\ UNCHANGED <<dir, last_saved>>

\* ---------------------------------------------------------------- resume
\* The line of the try block (97-112) that raises, 0 when none does.
RaisesAt(fps, ck) ==
    IF fps = {} THEN 99
    ELSE CASE ck.defect = "unreadable" -> 102
           [] ck.defect = "bad_model" -> 103
           [] ck.defect = "bad_optimizer" -> 104
           [] ck.defect = "no_epoch" -> 105
           [] ck.defect = "no_loss" -> 106
           [] ck.defect = "bad_loss" -> 111
           [] OTHER -> 0

ExceptionAt(line) ==
    CASE line = 99 -> "FileNotFoundError"
      [] line = 102 -> "UnpicklingError"
      [] line = 103 -> "RuntimeError"
      [] line = 104 -> "ValueError"
      [] line = 105 -> "KeyError"
      [] line = 106 -> "KeyError"
      [] line = 111 -> "AttributeError"
      [] OTHER -> "none"

\* The statement at `line` ran to its end when the try block raised at `at`.
Passed(line, at) == at = 0 \/ at > line

\* an except clause that names one exception class
CatchesKeyErrorOnly(exc) == exc = "KeyError"

\* `except:` at line 113 catches every exception
Catches(exc) == TRUE

\* continue_epoch = checkpoint['epoch'] + 1
EpochAfter(ck) == ck.epoch + 1

\* continue_epoch = checkpoint['epoch'], line 105
ContinueEpochOf(ck) == ck.epoch

\* natsort.natsorted(checkpoint_fps)[0]
OldestOf(fps) == FirstOf(Natsorted(fps))

\* natsort.natsorted(checkpoint_fps)[-1], line 100
LatestOf(fps) == LastOf(Natsorted(fps))

\* Lines 95-115, the whole try/except.
Resume ==
    /\ UNCHANGED datavars
    /\ pc = "resume"
    /\ LET fps == Glob(dir)
           fp  == IF fps = {} THEN NoPath ELSE LatestOf(fps)
           ck  == IF fps = {} THEN NoFile ELSE Open(dir, fp)
           at  == RaisesAt(fps, ck)
           exc == ExceptionAt(at)
           ce  == IF Passed(105, at) THEN ContinueEpochOf(ck) ELSE continue_epoch
           said == (IF Passed(106, at) THEN <<LoadedEntry(fp)>> ELSE <<>>)
                   \o (IF at = 0 THEN <<ContinueEntry(ce, ck.loss)>> ELSE <<>>)
       IN  IF at # 0 /\ ~Catches(exc)
           THEN /\ Exits("raised", exc)
                /\ UNCHANGED <<run, dir, last_saved>>
           ELSE /\ checkpoint_fp' = fp
                /\ model' = IF Passed(103, at) THEN ck.model_state_dict ELSE model
                /\ optimizer' = IF Passed(104, at) THEN ck.optimizer_state_dict ELSE optimizer
                /\ continue_epoch' = ce
                /\ log' = log \o said
                          \o (IF at # 0 THEN <<FailedEntry(exc)>> ELSE <<>>)
                          \o <<FromEntry(ce)>>
                /\ pc' = "loop"
                /\ UNCHANGED <<run, error, args, nbatches, dir, dir0, last_saved, training,
                               epoch, executed, next_step, step, loss, val_loss>>

\* ------------------------------------------------------------ epoch loop
\* The value range(continue_epoch, args.epoch) yields next.
NextOfRange == IF epoch = Unbound THEN continue_epoch ELSE epoch + 1

\* Lines 117-118: model.train() before the loop, then the head of the for
\* loop: bind the next epoch, or leave the loop when the range is used up.
NextEpoch ==
    /\ UNCHANGED datavars
    /\ pc = "loop"
    /\ training' = IF epoch = Unbound THEN TRUE ELSE training
    /\ IF NextOfRange < args.epoch
       THEN /\ epoch' = NextOfRange
            /\ executed' = Append(executed, NextOfRange)
            /\ next_step' = 0
            /\ pc' = IF nbatches > 0 THEN "batch" ELSE "log"
       ELSE /\ pc' = "final"
            /\ UNCHANGED <<epoch, executed, next_step>>
    /\ UNCHANGED <<run, error, args, nbatches, dir, dir0, last_saved, model, optimizer,
                   continue_epoch, checkpoint_fp, step, loss, val_loss, log>>

\* Lines 119-126: one mini-batch: forward, loss, backward, optimizer.step().
TrainBatch ==
    /\ UNCHANGED datavars
    /\ pc = "batch"
    /\ step' = next_step
    /\ loss' = TrainLoss(model, next_step)
    /\ model' = Stepped(model)
    /\ optimizer' = Stepped(optimizer)
    /\ next_step' = next_step + 1
    /\ pc' = IF next_step + 1 < nbatches THEN "batch" ELSE "log"
    /\ UNCHANGED <<run, error, args, nbatches, dir, dir0, last_saved, training,
                   continue_epoch, checkpoint_fp, epoch, executed, val_loss, log>>

\* Lines 119-126 on a batch whose loss comes out nan or inf: backward() and
\* optimizer.step() run as on any other batch and nothing raises.
TrainBatchNonFinite ==
    /\ UNCHANGED datavars
    /\ pc = "batch"
    /\ step' = next_step
    /\ loss' = NonFiniteLoss(model, next_step)
    /\ model' = Stepped(model)
    /\ optimizer' = Stepped(optimizer)
    /\ next_step' = next_step + 1
    /\ pc' = IF next_step + 1 < nbatches THEN "batch" ELSE "log"
    /\ UNCHANGED <<run, error, args, nbatches, dir, dir0, last_saved, training,
                   continue_epoch, checkpoint_fp, epoch, executed, val_loss, log>>

\* Lines 119-126: the batch raises (loading, device or memory failure) and
\* nothing catches it.
ComputeFails ==
    /\ UNCHANGED datavars
    /\ pc = "batch"
    /\ Exits("raised", "RuntimeError")
    /\ UNCHANGED <<run, dir, last_saved>>

\* epoch % args.log_interval == 0, line 128
LogDue(e, interval) == e % interval = 0

\* val_loss after a validation pass on every logged epoch
ValidateAlways(eval_val, m) == ValLoss(m)

\* Lines 129-138: val_loss is torch.tensor(-1) when eval_val is off, and the
\* loss of the one validation batch otherwise.
Validate(eval_val, m) == IF eval_val THEN ValLoss(m) ELSE Sentinel

\* model.eval() at line 133 without the model.train() of line 139
ModeLeftInEval(eval_val, t) == IF eval_val THEN FALSE ELSE t

\* model.training after lines 129-139: model.eval() and model.train() run
\* only in the else branch
ModeAfterValidation(eval_val, t) == IF eval_val THEN TRUE ELSE t

\* steps counted from 1
TotalStepFromOne(e, n, s) == e * n + s + 1

\* epoch * len(train_loader) + step, line 143
TotalStep(e, n, s) == e * n + s

\* Lines 128-146: the periodic validation pass and log record.
LogStep ==
    /\ UNCHANGED datavars
    /\ pc = "log"
    /\ IF args.log_interval = 0
       THEN /\ Exits("raised", "ZeroDivisionError")
            /\ UNCHANGED <<run, dir, last_saved>>
       ELSE IF ~LogDue(epoch, args.log_interval)
       THEN /\ pc' = "save"
            /\ UNCHANGED <<run, error, args, nbatches, dir, dir0, last_saved, log>>
            /\ UNCHANGED procvars
       ELSE IF step = Unbound
       THEN /\ Exits("raised", "NameError")
            /\ UNCHANGED <<run, dir, last_saved>>
       ELSE /\ pc' = "save"
            /\ val_loss' = Validate(args.eval_val, model)
            /\ training' = ModeAfterValidation(args.eval_val, training)
            /\ log' = log \o <<EpochEntry(epoch, TotalStep(epoch, nbatches, step),
                                            loss, val_loss')>>
            /\ UNCHANGED <<run, error, args, nbatches, dir, dir0, last_saved, model,
                           optimizer, continue_epoch, checkpoint_fp, epoch,
                           executed, next_step, step, loss>>

\* ----------------------------------------------------------- checkpoints
\* (epoch + 1) % args.save_interval == 0
SaveDueAfter(e, interval) == (e + 1) % interval = 0

\* epoch % args.save_interval == 0, line 148
SaveDue(e, interval) == e % interval = 0

\* The dict of lines 149-153, from the process's variables.
Snapshot == Checkpoint(epoch, loss, model, optimizer)

\* a final save that stores the validation loss
FinalSnapshotOfValLoss == Checkpoint(epoch, val_loss, model, optimizer)

\* The dict of lines 155-159.
FinalSnapshot == Checkpoint(epoch, loss, model, optimizer)

\* Lines 148-154: the periodic save, then back to the head of the loop.
SaveStep ==
    /\ UNCHANGED datavars
    /\ pc = "save"
    /\ IF args.save_interval = 0
       THEN /\ Exits("raised", "ZeroDivisionError")
            /\ UNCHANGED <<run, dir, last_saved>>
       ELSE IF ~SaveDue(epoch, args.save_interval)
       THEN /\ pc' = "loop"
            /\ UNCHANGED <<run, error, args, nbatches, dir, dir0, last_saved, log>>
            /\ UNCHANGED procvars
       ELSE IF loss = UnboundTensor
       THEN /\ Exits("raised", "NameError")
            /\ UNCHANGED <<run, dir, last_saved>>
       ELSE /\ pc' = "loop"
            /\ dir' = WriteFile(dir, epoch, Snapshot)
            /\ last_saved' = epoch
            /\ UNCHANGED <<run, error, args, nbatches, log>>
            /\ UNCHANGED procvars

\* Lines 155-160: the save after the loop, and the return from main, which
\* leaves the process's variables as they are.  With an empty range the names
\* epoch and loss were never bound and building the dict raises NameError.
FinalSave ==
    /\ UNCHANGED datavars
    /\ pc = "final"
    /\ IF epoch = Unbound \/ loss = UnboundTensor
       THEN /\ Exits("raised", "NameError")
            /\ UNCHANGED <<run, dir, last_saved>>
       ELSE /\ dir' = WriteFile(dir, epoch, FinalSnapshot)
            /\ last_saved' = epoch
            /\ pc' = "completed"
            /\ UNCHANGED <<run, error, args, nbatches, log>>
            /\ UNCHANGED procvars

\* The process is about to call torch.save (line 149 or line 155).
Saving ==
    \/ /\ pc = "save"
       /\ args.save_interval # 0
       /\ SaveDue(epoch, args.save_interval)
       /\ loss # UnboundTensor
    \/ /\ pc = "final"
       /\ epoch # Unbound
       /\ loss # UnboundTensor

\* The process is killed while torch.save is writing: the path holds a
\* truncated archive.
KillInSave ==
    /\ UNCHANGED datavars
    /\ Saving
    /\ dir' = WriteFile(dir, epoch, Truncated(Snapshot))
    /\ last_saved' = epoch
    /\ Exits("killed", "none")
    /\ UNCHANGED run

\* The process is killed between two statements.
Kill ==
    /\ UNCHANGED datavars
    /\ pc \in Running
    /\ Exits("killed", "none")
    /\ UNCHANGED <<run, dir, last_saved>>

\* ------------------------------------------------------------------ spec
\* No process is running.
Idle ==
    /\ pc = "idle"
    /\ error = "none"
    /\ args = NoArgs
    /\ nbatches = 1
    /\ model = NoProcess.model
    /\ optimizer = NoProcess.optimizer
    /\ training = NoProcess.training
    /\ continue_epoch = NoProcess.continue_epoch
    /\ checkpoint_fp = NoProcess.checkpoint_fp
    /\ epoch = NoProcess.epoch
    /\ executed = NoProcess.executed
    /\ next_step = NoProcess.next_step
    /\ step = NoProcess.step
    /\ loss = NoProcess.loss
    /\ val_loss = NoProcess.val_loss
    /\ log = NoProcess.log
    /\ dir0 = NoProcess.dir0
    /\ generator = 0
    /\ split = NoSplit

\* The dataset and its partition are not followed: the training loop sees
\* them only as nbatches.
NoData ==
    /\ nsamples = Unbound
    /\ partitions = <<>>

\* No process has run yet and model_saved/ holds nothing.
Init ==
    /\ Idle
    /\ NoData
    /\ run = 0
    /\ dir = EmptyDir
    /\ last_saved = Unbound

Next ==
    \/ StartRun
    \/ Resume
    \/ NextEpoch
    \/ TrainBatch
    \/ ComputeFails
    \/ LogStep
    \/ SaveStep
    \/ FinalSave
    \/ KillInSave
    \/ Kill

Spec == Init /\ [][Next]_vars

\* An artifact that another program, or another version of this one, left in
\* model_saved/ under the name checkpoint_epoch_<e>.pt.
ForeignState == [init |-> 0, steps |-> 1]

ForeignCheckpoint(e, d) ==
    [Checkpoint(e, TrainLoss([init |-> 0, steps |-> 0], 0), ForeignState, ForeignState)
     EXCEPT !.defect = d]

\* The last process to start finds model_saved/ empty, or holding one
\* artifact it did not write itself, healthy or malformed in one of the ways
\* of Defects.
InitOneRun ==
    /\ Idle
    /\ NoData
    /\ run = MaxRuns - 1
    /\ \/ /\ dir = EmptyDir
          /\ last_saved = Unbound
       \/ \E e \in 0..MaxEpoch, d \in Defects :
             /\ dir = [t \in {e} |-> ForeignCheckpoint(e, d)]
             /\ last_saved = e

SpecOneRun == InitOneRun /\ [][Next]_vars

\* Two processes are still to start, one after the other, on a directory in
\* which an earlier process left one healthy artifact.
InitTwoRuns ==
    /\ Idle
    /\ NoData
    /\ run = MaxRuns - 2
    /\ \E e \in 0..MaxEpoch :
          /\ dir = [t \in {e} |-> ForeignCheckpoint(e, "none")]
          /\ last_saved = e

SpecTwoRuns == InitTwoRuns /\ [][Next]_vars

\* One process on the directories of InitOneRun, with the batches whose loss
\* is not finite told apart from the others.
NextNumeric == Next \/ TrainBatchNonFinite

SpecNumeric == InitOneRun /\ [][NextNumeric]_vars

\* ------------------------------------------------- the partition, by step
\* The positions of a process between line 66 and line 87.
Setup == {"split", "reseed", "loaders", "built"}

\* The process dies during setup: its generator and its subsets are gone.
ExitsSetup(status, err) ==
    /\ Exits(status, err)
    /\ generator' = 0
    /\ split' = NoSplit
    /\ UNCHANGED <<run, dir, last_saved, nsamples, partitions>>

\* Lines 61-67: a new process loads normal.npy.  Whatever ran before line 72
\* (imports, other libraries) may have drawn from the default generator.
\* The arguments parsed at line 62 are read by nothing before line 77.
BeginMain ==
    /\ pc \in Ended
    /\ run < MaxRuns
    /\ run' = run + 1
    /\ pc' = "split"
    /\ error' = "none"
    /\ \E g \in 0..MaxGen : generator' = g
    /\ split' = NoSplit
    /\ UNCHANGED <<args, nbatches, dir, last_saved, log, nsamples, partitions>>
    /\ UNCHANGED procvars

\* Lines 69-74: the three lengths, torch.manual_seed(0) and random_split,
\* which raises when the lengths do not add up to len(all_set) and draws one
\* permutation from the default generator otherwise.
Partition ==
    /\ pc = "split"
    /\ LET train_len == TrainLen(nsamples)
           val_len   == ValLen(nsamples)
           test_len  == TestLen(nsamples)
           seeded    == ManualSeed(generator, 0)
       IN  IF train_len + val_len + test_len # nsamples
           THEN ExitsSetup("raised", "ValueError")
           ELSE /\ split' = RandomSplit(seeded, train_len, val_len, test_len)
                /\ generator' = Advance(seeded, nsamples)
                /\ partitions' = Append(partitions, [prior |-> generator, split |-> split'])
                /\ pc' = "reseed"
                /\ UNCHANGED <<run, error, args, nbatches, dir, last_saved, log, nsamples>>
                /\ UNCHANGED procvars

\* Line 75: torch.seed() seeds the generator from a non-deterministic source.
Reseed ==
    /\ pc = "reseed"
    /\ \E g \in 0..MaxGen : generator' = g
    /\ pc' = "loaders"
    /\ UNCHANGED <<run, error, args, nbatches, dir, last_saved, log, nsamples,
                   split, partitions>>
    /\ UNCHANGED procvars

\* Lines 77-87: the two loaders.  DataLoader(batch_size=len(val_set)) raises
\* ValueError for an empty validation set.
BuildLoaders ==
    /\ pc = "loaders"
    /\ IF Len(split.val) = 0
       THEN ExitsSetup("raised", "ValueError")
       ELSE /\ pc' = "built"
            /\ UNCHANGED <<run, error, args, nbatches, dir, last_saved, log>>
            /\ UNCHANGED datavars
            /\ UNCHANGED procvars

\* The process is killed during setup, or after it.
KillInSetup ==
    /\ pc \in Setup
    /\ ExitsSetup("killed", "none")

NextSplit ==
    \/ BeginMain
    \/ Partition
    \/ Reseed
    \/ BuildLoaders
    \/ KillInSetup

\* Two processes are still to start on the same normal.npy, which holds any
\* number of samples up to MaxN.
InitSplit ==
    /\ Idle
    /\ run = MaxRuns - 2
    /\ dir = EmptyDir
    /\ last_saved = Unbound
    /\ partitions = <<>>
    /\ \E n \in 0..MaxN : nsamples = n

SpecSplit == InitSplit /\ [][NextSplit]_vars

\* The sets of up to three epoch tags out of 0..MaxTag and 100.
TagSets == {{a, b, c} : a, b, c \in (0..MaxTag) \cup {100}}

\* A process started with continue_training is about to run line 95 on a
\* directory that holds healthy artifacts with the tags of one set.
InitSelect ==
    /\ pc = "resume"
    /\ run = MaxRuns
    /\ error = "none"
    /\ args = [NoArgs EXCEPT !.continue_training = TRUE]
    /\ nbatches = 1
    /\ model = FreshModel(run)
    /\ optimizer = FreshOptimizer(run)
    /\ training = TRUE
    /\ continue_epoch = 0
    /\ checkpoint_fp = NoPath
    /\ epoch = Unbound
    /\ executed = <<>>
    /\ next_step = 0
    /\ step = Unbound
    /\ loss = UnboundTensor
    /\ val_loss = UnboundTensor
    /\ log = <<>>
    /\ generator = 0
    /\ split = NoSplit
    /\ NoData
    /\ \E S \in TagSets :
          /\ dir = [t \in S |-> ForeignCheckpoint(t, "none")]
          /\ dir0 = dir
          /\ last_saved = CHOOSE t \in S : \A u \in S : u <= t

SpecSelect == InitSelect /\ [][Resume]_vars

\* ---------------------------------------------------------------- claims
\* The try block of lines 97-112 ran to its end in this process.
RestoredOK == \E i \in 1..Len(log) : log[i].msg = "continue epoch"

\* The except clause of lines 113-114 ran in this process.
RestoreFailed == \E i \in 1..Len(log) : log[i].msg = "load model checkpoint failed"

\* The process stands before the first iteration of the epoch loop.
BeforeFirstEpoch == pc = "loop" /\ epoch = Unbound

\* The process has bound its first epoch and not yet trained a batch of it.
AtFirstBatch == pc = "batch" /\ Len(executed) = 1 /\ next_step = 0

\* The file behind the path picked at line 100.
Picked == Open(dir, checkpoint_fp)

HighestTag(d) == CHOOSE t \in DOMAIN d : \A u \in DOMAIN d : u <= t

\* C1: after a successful restore of a checkpoint with epoch field E the
\* first epoch the loop executes is E, and its first batch starts from the
\* restored model and optimizer state.
C1_ResumeReRunsStoredEpoch ==
    (RestoredOK /\ executed # <<>>) =>
        /\ executed[1] = Picked.epoch
        /\ AtFirstBatch =>
              /\ epoch = Picked.epoch
              /\ model = Picked.model_state_dict
              /\ optimizer = Picked.optimizer_state_dict

\* C1 witness: a resumed process has re-run the batches of a stored epoch
\* E >= 1 on top of state an earlier process trained.
C1_Witness ==
    /\ RestoredOK
    /\ pc = "log"
    /\ executed = <<Picked.epoch>>
    /\ epoch >= 1
    /\ model.init # run
    /\ model.steps > Picked.model_state_dict.steps

\* C2: whichever statement of the restoration fails, the failure is caught
\* and the loop starts at epoch 0.
C2_MalformedMeansEpochZero ==
    RestoreFailed =>
        /\ continue_epoch = 0
        /\ executed # <<>> => executed[1] = 0

\* C3: after a recovered restoration failure the start epoch, the model and
\* the optimizer are those of a fresh run when the loop begins.
C3_FailedRestoreIsFreshStart ==
    (RestoreFailed /\ BeforeFirstEpoch) =>
        /\ continue_epoch = 0
        /\ model = FreshModel(run)
        /\ optimizer = FreshOptimizer(run)

\* C4: a process that leaves the epoch loop and is not killed ends by writing
\* a readable checkpoint tagged args.epoch - 1.
C4_FinalCheckpointWritten ==
    [][(pc = "final" /\ pc' # "final" /\ pc' # "killed") =>
          /\ pc' = "completed"
          /\ last_saved' = args.epoch - 1
          /\ (args.epoch - 1) \in DOMAIN dir'
          /\ dir'[args.epoch - 1] = Checkpoint(args.epoch - 1, loss, model, optimizer)]_vars

\* C5: an artifact, once written, is never deleted and never changes.
C5_ArtifactsImmutable ==
    [][\A t \in DOMAIN dir : t \in DOMAIN dir' /\ dir'[t] = dir[t]]_vars

\* C6 as stated: a successful resume has restored the artifact written last
\* in time.
C6_ResumeRestoresLastWritten ==
    (RestoredOK /\ BeforeFirstEpoch) => checkpoint_fp = FileName(last_saved)

\* C6 as amended: a successful resume has restored the artifact with the
\* highest epoch tag in the directory: its path, its epoch, its model state
\* and its optimizer state.
C6_ResumeRestoresHighestTag ==
    (RestoredOK /\ BeforeFirstEpoch) =>
        /\ checkpoint_fp = FileName(HighestTag(dir))
        /\ continue_epoch = dir[HighestTag(dir)].epoch
        /\ model = dir[HighestTag(dir)].model_state_dict
        /\ optimizer = dir[HighestTag(dir)].optimizer_state_dict

\* C6 witness: a resume restored the highest tag although a lower tag was
\* written later.
C6_Witness ==
    /\ RestoredOK
    /\ BeforeFirstEpoch
    /\ last_saved # HighestTag(dir)
    /\ checkpoint_fp = FileName(HighestTag(dir))

\* C7: with continue_training and no artifact in the directory, the failure
\* is logged, nothing is raised, model and optimizer stay fresh, and the loop
\* begins at epoch 0.
C7_NoCheckpointFallsBack ==
    /\ (args.continue_training /\ dir0 = EmptyDir /\ pc \in Running \ {"resume"}) =>
          /\ log[1] = FailedEntry("FileNotFoundError")
          /\ log[2] = FromEntry(0)
          /\ continue_epoch = 0
          /\ executed # <<>> => executed[1] = 0
          /\ BeforeFirstEpoch =>
                /\ model = FreshModel(run)
                /\ optimizer = FreshOptimizer(run)
    /\ pc = "raised" => error # "FileNotFoundError"

\* C7 witness: a process asked to continue found no artifact and trains
\* epoch 0 on its fresh model.
C7_Witness ==
    /\ pc = "batch"
    /\ args.continue_training
    /\ dir0 = EmptyDir
    /\ log[1] = FailedEntry("FileNotFoundError")
    /\ executed = <<0>>
    /\ next_step = 0
    /\ model = FreshModel(run)

\* the tags a completed fresh run with T epochs and save interval s leaves
ExpectedTags(T, s) == {e \in 0..(T - 1) : e % s = 0} \cup {T - 1}

\* C8: a process that found the directory empty and completes leaves exactly
\* the artifacts of the epochs e with e mod s = 0 and of epoch T - 1, each
\* readable and with its own tag as epoch field.
C8_FreshRunArtifacts ==
    (pc = "completed" /\ dir0 = EmptyDir) =>
        /\ args.epoch >= 1
        /\ args.save_interval >= 1
        /\ DOMAIN dir = ExpectedTags(args.epoch, args.save_interval)
        /\ \A t \in DOMAIN dir : dir[t].epoch = t /\ dir[t].defect = "none"

\* C8 witness: 3 epochs with save interval 1 left exactly the artifacts 0, 1, 2.
C8_Witness ==
    /\ pc = "completed"
    /\ dir0 = EmptyDir
    /\ args.epoch = 3
    /\ args.save_interval = 1
    /\ DOMAIN dir = {0, 1, 2}
    /\ \A t \in DOMAIN dir : dir[t].epoch = t /\ dir[t].defect = "none"

\* C9: a kill, also one in the middle of a torch.save, leaves every artifact
\* that existed before it as it was.
C9_KillLeavesArtifacts ==
    [][pc' = "killed" =>
          \A t \in DOMAIN dir : t \in DOMAIN dir' /\ dir'[t] = dir[t]]_vars

\* C10: out of any non-empty set of artifacts checkpoint_epoch_<n>.pt line 100
\* picks the one with the numerically largest n.
C10_PicksLargestNumber ==
    pc = "loop" =>
        \E n \in DOMAIN dir :
            /\ checkpoint_fp = FileName(n)
            /\ \A t \in DOMAIN dir : t <= n

\* C10 witness: among the tags 5, 10 and 100 the pick is 100.
C10_Witness ==
    /\ pc = "loop"
    /\ DOMAIN dir = {5, 10, 100}
    /\ checkpoint_fp = <<1, 0, 0>>
    /\ continue_epoch = 100

\* C11: when the save-interval rule already saved the last epoch, the final
\* save rewrites the same path with the same four fields: the directory after
\* it equals the directory before it.
C11_FinalSaveIdempotent ==
    [][(pc = "final" /\ pc' = "completed" /\ epoch % args.save_interval = 0) =>
          /\ dir[epoch] = Checkpoint(epoch, loss, model, optimizer)
          /\ dir'[epoch] = dir[epoch]
          /\ dir' = dir]_vars

\* C11 witness: the last epoch (1 or later) was validated, logged, saved by
\* the interval rule and saved again by the final save.
C11_Witness ==
    /\ pc = "completed"
    /\ epoch >= 1
    /\ epoch % args.save_interval = 0
    /\ args.eval_val
    /\ log[Len(log)].epoch = epoch
    /\ log[Len(log)].val_loss = ValLoss(model)
    /\ dir[epoch] = Checkpoint(epoch, loss, model, optimizer)

\* C14: with eval_val off no validation loss is ever computed, and every
\* record logged for an epoch carries the constant tensor -1.
C14_DisabledValidationLogsSentinel ==
    (pc \in Running \cup {"completed"} /\ ~args.eval_val) =>
        /\ val_loss.fn # "val"
        /\ \A i \in 1..Len(log) :
              log[i].msg = "epoch" =>
                  /\ log[i].val_loss.fn = "const"
                  /\ log[i].val_loss = [fn |-> "const", of |-> NoState, batch |-> -1]

\* C14 witness: a completed process with eval_val off logged two epochs.
C14_Witness ==
    /\ pc = "completed"
    /\ ~args.eval_val
    /\ Len(executed) >= 2
    /\ Cardinality({i \in 1..Len(log) : log[i].msg = "epoch"}) >= 2
    /\ val_loss.fn = "const"

\* the state dict one optimizer step before sd
Before(sd) == [sd EXCEPT !.steps = @ - 1]

\* C16: the record logged for epoch e and the checkpoint written for epoch e
\* carry the loss of the last mini-batch (index nbatches - 1) of epoch e,
\* computed with the parameters as they were before that batch's update, and
\* total_step is e * nbatches + (nbatches - 1).
C16_LastBatchLossRecorded ==
    [][/\ (pc = "log" /\ pc' = "save" /\ log' # log) =>
             /\ Len(log') = Len(log) + 1
             /\ log'[Len(log')].epoch = epoch
             /\ log'[Len(log')].train_loss = TrainLoss(Before(model), nbatches - 1)
             /\ log'[Len(log')].total_step = epoch * nbatches + (nbatches - 1)
       /\ (\/ pc = "save" /\ pc' = "loop" /\ epoch % args.save_interval = 0
           \/ pc = "final" /\ pc' = "completed") =>
             /\ epoch = executed[Len(executed)]
             /\ dir'[epoch].epoch = epoch
             /\ dir'[epoch].loss = TrainLoss(Before(model), nbatches - 1)]_vars

\* C16 witness: epoch 1 of a process with two batches per epoch was logged
\* and saved with the loss of batch 1 of that epoch.
C16_Witness ==
    /\ pc = "loop"
    /\ nbatches = 2
    /\ executed = <<0, 1>>
    /\ log[Len(log)].epoch = 1
    /\ log[Len(log)].total_step = 3
    /\ log[Len(log)].train_loss = TrainLoss(Before(model), 1)
    /\ last_saved = 1
    /\ dir[1].loss = TrainLoss(Before(model), 1)

\* C19: the validation pass and log record of an epoch leave the model, the
\* optimizer, the epoch, the step and the training loss as they were, and a
\* mini-batch never runs on a model that is not in training mode.
C19_ValidationChangesOnlyValLoss ==
    [][/\ (pc = "log" /\ pc' = "save") =>
             /\ model' = model
             /\ optimizer' = optimizer
             /\ epoch' = epoch
             /\ step' = step
             /\ loss' = loss
       /\ pc' = "batch" => training']_vars

\* C19 witness: a validation pass ran in one epoch and the first batch of the
\* next epoch is about to run in training mode.
C19_Witness ==
    /\ pc = "batch"
    /\ next_step = 0
    /\ Len(executed) >= 2
    /\ args.eval_val
    /\ val_loss = ValLoss(model)
    /\ training

\* C12: a mini-batch whose compute step fails (it raises, or its loss is not
\* finite) ends the process: no later batch, no later epoch, and no
\* checkpoint is written by that process afterwards.
C12_ComputeFailureEndsRun ==
    [][/\ (pc = "batch" /\ (pc' = "raised" \/ loss'.fn = "nonfinite")) =>
             /\ pc' = "raised"
             /\ error' = "RuntimeError"
             /\ dir' = dir
       /\ pc = "raised" =>
             /\ run' = run + 1
             /\ dir' = dir]_vars

\* the epochs of range(continue_epoch, args.epoch) bound so far are S, S+1, ...
InOrder == \A i \in 1..Len(executed) : executed[i] = continue_epoch + (i - 1)

\* C17: a process in which no compute step fails does not end with an
\* exception; it binds the epochs S, S+1, ... in order, each once, runs the
\* log and save steps of an epoch only after the epoch's last batch, and
\* completes having bound exactly S .. T-1.
C17_RunCompletesInOrder ==
    /\ pc = "raised" => error = "RuntimeError"
    /\ pc \in (Running \ {"resume"}) \cup {"completed"} => InOrder
    /\ pc \in {"log", "save"} => next_step = nbatches
    /\ pc = "completed" =>
          /\ Len(executed) = args.epoch - continue_epoch
          /\ epoch = args.epoch - 1

\* C18: a process started with continue_training and epoch count T on a
\* directory whose highest artifact is a readable checkpoint of epoch T-1
\* restores it, executes the one epoch T-1 and, when it completes, has
\* rewritten the artifact T-1 with model and optimizer state that received
\* nbatches more updates than the restored state.
C18_RerunAddsOnePass ==
    (/\ pc = "completed"
     /\ args.continue_training
     /\ DOMAIN dir0 # {}
     /\ HighestTag(dir0) = args.epoch - 1
     /\ dir0[args.epoch - 1].defect = "none") =>
        LET old == dir0[args.epoch - 1]
            new == dir[args.epoch - 1]
        IN  /\ checkpoint_fp = FileName(args.epoch - 1)
            /\ continue_epoch = args.epoch - 1
            /\ executed = <<args.epoch - 1>>
            /\ last_saved = args.epoch - 1
            /\ new.defect = "none"
            /\ new.epoch = args.epoch - 1
            /\ new.model_state_dict.init = old.model_state_dict.init
            /\ new.model_state_dict.steps = old.model_state_dict.steps + nbatches
            /\ new.optimizer_state_dict.init = old.optimizer_state_dict.init
            /\ new.optimizer_state_dict.steps = old.optimizer_state_dict.steps + nbatches

\* C18 witness: the artifact T-1 (T >= 2) that the previous process trained
\* from scratch and saved was restored, trained for one more epoch of two
\* batches and written again.
C18_Witness ==
    /\ pc = "completed"
    /\ args.continue_training
    /\ args.epoch >= 2
    /\ nbatches = 2
    /\ DOMAIN dir0 # {}
    /\ HighestTag(dir0) = args.epoch - 1
    /\ dir0[args.epoch - 1].defect = "none"
    /\ dir0[args.epoch - 1].model_state_dict.init = run - 1
    /\ executed = <<args.epoch - 1>>
    /\ dir[args.epoch - 1].model_state_dict.steps
          = dir0[args.epoch - 1].model_state_dict.steps + 2

\* the sample indices of one subset
Indices(q) == {q[i] : i \in 1..Len(q)}

\* no index occurs twice in one subset
NoRepeat(q) == Cardinality(Indices(q)) = Len(q)

\* C13: after random_split the subset sizes are floor(0.8 N), floor(0.1 N)
\* and the rest, none is negative, they add up to N, the subsets are pairwise
\* disjoint and together hold every index 0..N-1; the split itself never
\* raises.
C13_SplitSizesAndCover ==
    /\ split.made =>
          /\ Len(split.train) = (8 * nsamples) \div 10
          /\ Len(split.val) = nsamples \div 10
          /\ Len(split.test) = nsamples - (8 * nsamples) \div 10 - nsamples \div 10
          /\ TrainLen(nsamples) >= 0 /\ ValLen(nsamples) >= 0 /\ TestLen(nsamples) >= 0
          /\ Len(split.train) + Len(split.val) + Len(split.test) = nsamples
          /\ NoRepeat(split.train) /\ NoRepeat(split.val) /\ NoRepeat(split.test)
          /\ Indices(split.train) \cap Indices(split.val) = {}
          /\ Indices(split.train) \cap Indices(split.test) = {}
          /\ Indices(split.val) \cap Indices(split.test) = {}
          /\ Indices(split.train) \cup Indices(split.val) \cup Indices(split.test)
                = 0..(nsamples - 1)
    /\ pc \in {"reseed", "loaders", "built"} => split.made
    /\ (pc = "raised" /\ error = "ValueError") => nsamples < 10

\* C13 witness: 25 samples were split into 20, 2 and 3.
C13_Witness ==
    /\ split.made
    /\ nsamples = 25
    /\ Len(split.train) = 20
    /\ Len(split.val) = 2
    /\ Len(split.test) = 3

\* C15: every process that partitions the dataset assigns each index to the
\* same subset, whatever state its generator was in before line 72.
C15_SplitSameInEveryRun ==
    \A i, j \in 1..Len(partitions) : partitions[i].split = partitions[j].split

\* C15 witness: two processes whose generators were in different states
\* before line 72 split 10 or more samples, in an order that is not the
\* order of the file, the same way.
C15_Witness ==
    /\ Len(partitions) = 2
    /\ partitions[1].prior # partitions[2].prior
    /\ partitions[1].split = partitions[2].split
    /\ nsamples >= 10
    /\ partitions[2].split.val # SubSeq([i \in 1..nsamples |-> i - 1],
                                       TrainLen(nsamples) + 1,
                                       TrainLen(nsamples) + ValLen(nsamples))

====
